---------------------------- MODULE Spec2Model ----------------------------
(***************************************************************************)
(* A model of scraper/scrape_jonas.py: the batch driver (main), the record *)
(* builder's transport step (scrape_manuscript), and the pure extraction   *)
(* helpers (get_field, clean_title, parse_contents, identify_saints).      *)
(*                                                                         *)
(* Strings are sequences of one-character strings, so that split, strip,   *)
(* startswith, lower, slicing and substring search are computed the way    *)
(* the Python code computes them.                                          *)
(***************************************************************************)
EXTENDS Integers, Sequences, FiniteSets, TLC

VARIABLES
    \* ---- main / scrape_manuscript ----
    ids,        \* MANUSCRIPT_IDS
    pc,         \* position of the running function
    i,          \* the enumerate() index of main's loop
    ms,         \* the value scrape_manuscript returned for the current target
    results,    \* main's results list
    inflight,   \* number of requests.get calls that have not returned yet
    events,     \* what the run did so far: requests, responses, sleeps, writes
    output,     \* what was written to OUTPUT_PATH, one element per write
    stderr,     \* lines printed to sys.stderr
    \* ---- clean_title ----
    raw_title,  \* the argument
    title_parts, \* the dict returned
    \* ---- identify_saints ----
    contents,   \* the list of works
    saint_keywords, \* the keyword table, in dict order
    found,      \* the list returned
    \* ---- get_field / parse_contents ----
    soup,       \* the parsed document
    label,      \* get_field's label
    field_value, \* the string get_field returned
    \* ---- parse_contents (with soup; contents is its result) ----
    link_idx,   \* position of the for loop in work_links
    seen_ids    \* the set seen_ids

batchVars == <<ids, i, ms, results, inflight, events, output, stderr>>
titleVars == <<raw_title, title_parts>>
saintVars == <<contents, saint_keywords, found>>
fieldVars == <<soup, label, field_value>>
parseVars == <<link_idx, seen_ids>>

vars == <<pc, batchVars, titleVars, saintVars, fieldVars, parseVars>>

\* Python values: None, and a dict with its items.
None == [kind |-> "None"]
Dict(d) == [kind |-> "dict", items |-> d]

(***************************************************************************)
(* Each specification below runs one function of the program; the          *)
(* variables of the functions that are not running keep these values.      *)
(***************************************************************************)

BatchIdle ==
    /\ ids = << >>
    /\ i = 0
    /\ ms = None
    /\ results = << >>
    /\ inflight = 0
    /\ events = << >>
    /\ output = << >>
    /\ stderr = << >>

TitleIdle ==
    /\ raw_title = << >>
    /\ title_parts = None

SaintsIdle ==
    /\ contents = << >>
    /\ saint_keywords = << >>
    /\ found = None

FieldIdle ==
    /\ soup = << >>
    /\ label = << >>
    /\ field_value = None

ParseIdle ==
    /\ link_idx = 0
    /\ seen_ids = {}

\* The sequences over S of length at most n.
RECURSIVE SeqsUpTo(_, _)
SeqsUpTo(S, n) ==
    IF n = 0 THEN {<< >>}
    ELSE LET shorter == SeqsUpTo(S, n - 1)
         IN  shorter \cup {Append(s, x) : s \in {t \in shorter : Len(t) = n - 1}, x \in S}

(***************************************************************************)
(* Strings                                                                 *)
(***************************************************************************)

\* The characters Python's str.strip() and the regex class \s remove.
Whitespace == {" ", "\t", "\n"}

UpperAZ == <<"A","B","C","D","E","F","G","H","I","J","K","L","M",
             "N","O","P","Q","R","S","T","U","V","W","X","Y","Z">>
LowerAZ == <<"a","b","c","d","e","f","g","h","i","j","k","l","m",
             "n","o","p","q","r","s","t","u","v","w","x","y","z">>

\* str.lower(), one character.
LowerChar(c) ==
    IF \E k \in 1..Len(UpperAZ) : UpperAZ[k] = c
    THEN LowerAZ[CHOOSE k \in 1..Len(UpperAZ) : UpperAZ[k] = c]
    ELSE c

\* str.lower()
Lower(s) == [k \in 1..Len(s) |-> LowerChar(s[k])]

\* s[:n]
Prefix(s, n) == SubSeq(s, 1, IF n < Len(s) THEN n ELSE Len(s))

\* s.startswith(p)
StartsWith(s, p) == Len(p) <= Len(s) /\ SubSeq(s, 1, Len(p)) = p

\* p in s
Contains(s, p) ==
    \E k \in 0..(Len(s) - Len(p)) : SubSeq(s, k + 1, k + Len(p)) = p

\* str.strip()
Strip(s) ==
    LET keep == {k \in 1..Len(s) : s[k] \notin Whitespace}
    IN  IF keep = {} THEN << >>
        ELSE SubSeq(s, CHOOSE a \in keep : \A b \in keep : a <= b,
                       CHOOSE a \in keep : \A b \in keep : a >= b)

\* str.split(sep) for a one-character separator.
Split(s, sep) ==
    LET cuts == {k \in 1..Len(s) : s[k] = sep}
        \* the position of the n-th separator; 0 before the first piece and
        \* Len(s) + 1 after the last
        Bound(n) == IF n = 0 THEN 0
                    ELSE IF n > Cardinality(cuts) THEN Len(s) + 1
                    ELSE CHOOSE k \in cuts : Cardinality({j \in cuts : j < k}) = n - 1
    IN  [n \in 1..(Cardinality(cuts) + 1) |-> SubSeq(s, Bound(n - 1) + 1, Bound(n) - 1)]

RECURSIVE Flatten(_)
Flatten(ss) == IF ss = << >> THEN << >> ELSE Head(ss) \o Flatten(Tail(ss))

(***************************************************************************)
(* clean_title                                                             *)
(***************************************************************************)

\* "Incipit référence"
IncipitReference ==
    <<"I","n","c","i","p","i","t"," ","r","e_acute","f","e_acute","r","e","n","c","e">>

IsIncipitReference(p) == StartsWith(p, IncipitReference)
IsNotIncipitReference(p) == ~IsIncipitReference(p)

\* clean_title without the final fallback to raw_title.
clean_titleNoFallback(raw) ==
    LET split == Split(raw, "|")
        stripped == [n \in 1..Len(split) |-> Strip(split[n])]
        parts == SelectSeq(stripped, IsNotIncipitReference)
    IN  IF Len(parts) = 1 THEN [author |-> << >>, title |-> parts[1]]
        ELSE IF Len(parts) >= 2 THEN [author |-> parts[1], title |-> parts[2]]
        ELSE [author |-> << >>, title |-> << >>]

clean_title(raw) ==
    LET split == Split(raw, "|")
        stripped == [n \in 1..Len(split) |-> Strip(split[n])]
        parts == SelectSeq(stripped, IsNotIncipitReference)
    IN  IF Len(parts) = 1 THEN [author |-> << >>, title |-> parts[1]]
        ELSE IF Len(parts) >= 2 THEN [author |-> parts[1], title |-> parts[2]]
        ELSE [author |-> << >>, title |-> raw]

\* Bound on the number of pieces a raw title is put together from.
MaxPieces == 4

\* The pieces: whitespace, the separator, a letter, the incipit prefix.
TitlePieces == {<<" ">>, <<"|">>, <<"a">>, IncipitReference}

RawTitles == {Flatten(ps) : ps \in SeqsUpTo(TitlePieces, MaxPieces)}

InitTitle ==
    /\ raw_title \in RawTitles
    /\ title_parts = None
    /\ pc = "clean_title"
    /\ BatchIdle
    /\ SaintsIdle
    /\ FieldIdle
    /\ ParseIdle

\* title_parts = clean_title(raw_title)
CallCleanTitle ==
    /\ pc = "clean_title"
    /\ title_parts' = Dict(clean_title(raw_title))
    /\ pc' = "done"
    /\ UNCHANGED <<raw_title, batchVars, saintVars, fieldVars, parseVars>>

NextTitle == CallCleanTitle

SpecTitle == InitTitle /\ [][NextTitle]_vars

NoSeparator(s) == \A k \in 1..Len(s) : s[k] # "|"
IsBlank(s) == \A k \in 1..Len(s) : s[k] \in Whitespace

\* t is s without its leading and trailing whitespace.
IsTrimOf(t, s) ==
    /\ t = << >> \/ (t[1] \notin Whitespace /\ t[Len(t)] \notin Whitespace)
    /\ \E a \in 0..(Len(s) - Len(t)) :
          /\ IsBlank(SubSeq(s, 1, a))
          /\ SubSeq(s, a + 1, a + Len(t)) = t
          /\ IsBlank(SubSeq(s, a + Len(t) + 1, Len(s)))

\* s, after its leading whitespace, begins with the incipit-reference prefix.
BeginsWithIncipitReference(s) ==
    \E a \in 0..(Len(s) - Len(IncipitReference)) :
        /\ IsBlank(SubSeq(s, 1, a))
        /\ SubSeq(s, a + 1, a + Len(IncipitReference)) = IncipitReference

\* C8 as stated: a raw title without a separator comes back unchanged as
\* the title, with an empty author.
C8_TitleIsRawUnchanged ==
    pc = "done" /\ NoSeparator(raw_title) =>
        title_parts.items = [author |-> << >>, title |-> raw_title]

\* C8 amended: a raw title without a separator gives an empty author and,
\* as title, the raw string trimmed of surrounding whitespace; the raw string
\* itself is returned only when, after its leading whitespace, it starts with
\* the incipit-reference prefix.
C8_TitleIsRawTrimmed ==
    pc = "done" /\ NoSeparator(raw_title) =>
        /\ title_parts.items.author = << >>
        /\ IF BeginsWithIncipitReference(raw_title)
           THEN title_parts.items.title = raw_title
           ELSE IsTrimOf(title_parts.items.title, raw_title)

\* A raw title with leading whitespace and no separator, whose title comes
\* back trimmed.
C8_Witness ==
    /\ pc = "done"
    /\ NoSeparator(raw_title)
    /\ Len(raw_title) >= 2
    /\ raw_title[1] \in Whitespace
    /\ title_parts.items.title # raw_title
    /\ title_parts.items.title # << >>

(***************************************************************************)
(* identify_saints                                                         *)
(***************************************************************************)

\* SAINT_KEYWORDS: a dict, modelled as the sequence of its items in
\* insertion order.
SAINT_KEYWORDS == <<
    [saint_id |-> "saint-martin",
     keywords |-> <<<<"m","a","r","t","i","n">>>>],
    [saint_id |-> "saint-catherine",
     keywords |-> <<<<"c","a","t","h","e","r","i","n","e">>,
                    <<"k","a","t","h","e","r","i","n","a">>>>],
    [saint_id |-> "saint-nicholas",
     keywords |-> <<<<"n","i","c","o","l","a","s">>,
                    <<"n","i","c","h","o","l","a","s">>,
                    <<"n","i","c","o","l","a","i">>>>],
    [saint_id |-> "saint-margaret",
     keywords |-> <<<<"m","a","r","g","u","e","r","i","t","e">>,
                    <<"m","a","r","g","a","r","e","t">>,
                    <<"m","a","r","g","a","r","e","t","a">>>>] >>

Range(s) == {s[k] : k \in 1..Len(s)}

\* for kw in keywords: if kw.lower() in title_lower: ... break
AnyKeywordIn(keywords, title_lower) ==
    \E k \in 1..Len(keywords) : Contains(title_lower, Lower(keywords[k]))

\* The keyword loop without its break: one append per matching keyword.
RECURSIVE AppendPerKeyword(_, _, _, _)
AppendPerKeyword(acc, saint_id, keywords, title_lower) ==
    IF keywords = << >> THEN acc
    ELSE AppendPerKeyword(
            IF Contains(title_lower, Lower(Head(keywords))) THEN Append(acc, saint_id) ELSE acc,
            saint_id, Tail(keywords), title_lower)

\* The loop over saint_keywords.items() for one work, without the break.
RECURSIVE ScanTableNoBreak(_, _, _)
ScanTableNoBreak(acc, table, title_lower) ==
    IF table = << >> THEN acc
    ELSE LET item == Head(table)
             next == IF item.saint_id \notin Range(acc)
                     THEN AppendPerKeyword(acc, item.saint_id, item.keywords, title_lower)
                     ELSE acc
         IN  ScanTableNoBreak(next, Tail(table), title_lower)

\* The loop over saint_keywords.items() for one work.
RECURSIVE ScanTable(_, _, _)
ScanTable(acc, table, title_lower) ==
    IF table = << >> THEN acc
    ELSE LET item == Head(table)
             next == IF /\ item.saint_id \notin Range(acc)
                        /\ AnyKeywordIn(item.keywords, title_lower)
                     THEN Append(acc, item.saint_id)
                     ELSE acc
         IN  ScanTable(next, Tail(table), title_lower)

\* The loop over the works.
RECURSIVE ScanWorks(_, _, _)
ScanWorks(acc, works, table) ==
    IF works = << >> THEN acc
    ELSE ScanWorks(ScanTable(acc, table, Lower(Head(works).title)), Tail(works), table)

identify_saints(works, table) == ScanWorks(<< >>, works, table)

\* Bound on the number of works.
MaxWorks == 2

\* Work titles: mixed case, empty, one and two letters.
Titles == {<< >>, <<"M">>, <<"c">>, <<"M","c">>, <<"c","M">>, <<"x">>}

\* Keyword lists (lower case, as the table's are): none, one keyword, two
\* keywords that can match the same title, a two-letter keyword.
KeywordLists == {<< >>, << <<"m">> >>, << <<"c">> >>,
                 << <<"m">>, <<"c">> >>, << <<"m","c">> >>}

SaintIds == {"saint-martin", "saint-catherine"}

\* Every table over SaintIds: the keys of a dict are distinct.
KeywordTables ==
    {t \in SeqsUpTo([saint_id : SaintIds, keywords : KeywordLists], Cardinality(SaintIds)) :
        \A a, b \in 1..Len(t) : a # b => t[a].saint_id # t[b].saint_id}

\* "Vie de saint Martin", "Vie de sainte Catherine"
ExampleWorks == <<
    [title |-> <<"V","i","e"," ","d","e"," ","s","a","i","n","t"," ","M","a","r","t","i","n">>],
    [title |-> <<"V","i","e"," ","d","e"," ","s","a","i","n","t","e"," ","C","a","t","h","e","r","i","n","e">>] >>

InitSaints ==
    /\ \/ /\ contents \in SeqsUpTo([title : Titles], MaxWorks)
          /\ saint_keywords \in KeywordTables
       \/ /\ contents = ExampleWorks
          /\ saint_keywords = SAINT_KEYWORDS
    /\ found = None
    /\ pc = "identify_saints"
    /\ BatchIdle
    /\ TitleIdle
    /\ FieldIdle
    /\ ParseIdle

\* saints = identify_saints(contents, SAINT_KEYWORDS)
CallIdentifySaints ==
    /\ pc = "identify_saints"
    /\ found' = identify_saints(contents, saint_keywords)
    /\ pc' = "done"
    /\ UNCHANGED <<contents, saint_keywords, batchVars, titleVars, fieldVars, parseVars>>

NextSaints == CallIdentifySaints

SpecSaints == InitSaints /\ [][NextSaints]_vars

\* The works whose lowercased title has one of the saint's keywords as a
\* substring.
MatchingWorks(item) ==
    {w \in 1..Len(contents) :
        \E k \in 1..Len(item.keywords) :
            Contains(Lower(contents[w].title), item.keywords[k])}

ItemOf(saint_id) ==
    CHOOSE item \in Range(saint_keywords) : item.saint_id = saint_id

FirstMatch(saint_id) ==
    CHOOSE w \in MatchingWorks(ItemOf(saint_id)) :
        \A v \in MatchingWorks(ItemOf(saint_id)) : w <= v

\* C6: the list returned has no duplicate, holds exactly the saints with a
\* keyword occurring in some lowercased title, and lists them by the position
\* of the first work that matches them (the sample table and the two example
\* works give saint-martin, saint-catherine).
C6_SaintsInFirstMatchOrder ==
    pc = "done" =>
        /\ \A p, q \in 1..Len(found) : p # q => found[p] # found[q]
        /\ Range(found) =
              {item.saint_id : item \in {t \in Range(saint_keywords) : MatchingWorks(t) # {}}}
        /\ \A p, q \in 1..Len(found) :
              p < q => FirstMatch(found[p]) <= FirstMatch(found[q])
        /\ (contents = ExampleWorks /\ saint_keywords = SAINT_KEYWORDS) =>
              found = <<"saint-martin", "saint-catherine">>

\* Two saints found in the reverse of the table's order, the first of them
\* matched by two works.
C6_Witness ==
    /\ pc = "done"
    /\ Len(saint_keywords) = 2
    /\ found = <<saint_keywords[2].saint_id, saint_keywords[1].saint_id>>
    /\ Cardinality(MatchingWorks(saint_keywords[2])) = 2

(***************************************************************************)
(* The parsed document (BeautifulSoup)                                     *)
(*                                                                         *)
(* A document is the sequence of its elements in document order.  Element  *)
(* 1 is the BeautifulSoup object itself; parent is the index of the parent *)
(* element, 0 for None.  text is the element's own string, which comes     *)
(* before its child elements.                                              *)
(***************************************************************************)

Element(name, parent, class, href, text) ==
    [name |-> name, parent |-> parent, class |-> class, href |-> href, text |-> text]

\* An attribute that is absent.
NoAttr == <<"absent">>

\* The ancestors of element n, nearest first, up to the BeautifulSoup object.
RECURSIVE AncestorsOf(_, _)
AncestorsOf(doc, n) ==
    IF doc[n].parent = 0 THEN << >>
    ELSE <<doc[n].parent>> \o AncestorsOf(doc, doc[n].parent)

\* A finite set of numbers as an ascending sequence.
Ascending(S) ==
    [n \in 1..Cardinality(S) |-> CHOOSE x \in S : Cardinality({y \in S : y < x}) = n - 1]

DescendantsOf(doc, n) == {m \in 1..Len(doc) : n \in Range(AncestorsOf(doc, m))}

\* tag.find_all(name): the descendants with that name, in document order.
find_all(doc, n, name) ==
    Ascending({m \in DescendantsOf(doc, n) : doc[m].name = name})

\* tag.find_next_sibling(name): the next element with that name under the same
\* parent, 0 for None.
find_next_sibling(doc, n, name) ==
    LET later == {m \in (n + 1)..Len(doc) :
                     doc[m].parent = doc[n].parent /\ doc[m].name = name}
    IN  IF later = {} THEN 0 ELSE CHOOSE m \in later : \A o \in later : m <= o

RECURSIVE Join(_, _)
Join(ss, sep) ==
    IF ss = << >> THEN << >>
    ELSE IF Len(ss) = 1 THEN ss[1]
    ELSE ss[1] \o sep \o Join(Tail(ss), sep)

IsNotEmpty(t) == t # << >>

\* tag.get_text(separator=sep, strip=True): the strings of the element and
\* of its descendants, each stripped, the empty ones dropped, joined by sep.
get_text(doc, n, sep) ==
    LET nodes == Ascending({n} \cup DescendantsOf(doc, n))
        strings == [k \in 1..Len(nodes) |-> Strip(doc[nodes[k]].text)]
    IN  Join(SelectSeq(strings, IsNotEmpty), sep)

(***************************************************************************)
(* get_field                                                               *)
(***************************************************************************)

\* The outcome of one strategy: a value was returned, or the loop ran out.
Returned(v) == [returned |-> TRUE, value |-> v]
FellThrough == [returned |-> FALSE, value |-> << >>]

\* len(text) < 80 in strategy 3
LABEL_CELL_MAX == 80

\* Strategies 1 and 2: for el in soup.find_all(name): if label_lower in text:
\* sib = el.find_next_sibling(value_name); if sib: return its text
RECURSIVE LabelThenSibling(_, _, _, _)
LabelThenSibling(doc, els, value_name, label_lower) ==
    IF els = << >> THEN FellThrough
    ELSE LET sib == find_next_sibling(doc, Head(els), value_name)
         IN  IF /\ Contains(Lower(get_text(doc, Head(els), << >>)), label_lower)
                /\ sib # 0
             THEN Returned(get_text(doc, sib, <<" ">>))
             ELSE LabelThenSibling(doc, Tail(els), value_name, label_lower)

\* Strategy 3: td/td, only short label cells, only a non-empty value.
RECURSIVE CellThenCell(_, _, _)
CellThenCell(doc, tds, label_lower) ==
    IF tds = << >> THEN FellThrough
    ELSE LET text == get_text(doc, Head(tds), << >>)
             sibling == find_next_sibling(doc, Head(tds), "td")
         IN  IF /\ Contains(Lower(text), label_lower)
                /\ Len(text) < LABEL_CELL_MAX
                /\ sibling # 0
                /\ get_text(doc, sibling, <<" ">>) # << >>
             THEN Returned(get_text(doc, sibling, <<" ">>))
             ELSE CellThenCell(doc, Tail(tds), label_lower)

\* Strategies 1 and 2 made to skip an empty value, as strategy 3 does.
RECURSIVE LabelThenNonEmptySibling(_, _, _, _)
LabelThenNonEmptySibling(doc, els, value_name, label_lower) ==
    IF els = << >> THEN FellThrough
    ELSE LET sib == find_next_sibling(doc, Head(els), value_name)
         IN  IF /\ Contains(Lower(get_text(doc, Head(els), << >>)), label_lower)
                /\ sib # 0
                /\ get_text(doc, sib, <<" ">>) # << >>
             THEN Returned(get_text(doc, sib, <<" ">>))
             ELSE LabelThenNonEmptySibling(doc, Tail(els), value_name, label_lower)

get_fieldSkippingEmpty(doc, lbl) ==
    LET label_lower == Lower(lbl)
        s1 == LabelThenNonEmptySibling(doc, find_all(doc, 1, "dt"), "dd", label_lower)
        s2 == LabelThenNonEmptySibling(doc, find_all(doc, 1, "th"), "td", label_lower)
        s3 == CellThenCell(doc, find_all(doc, 1, "td"), label_lower)
    IN  IF s1.returned THEN s1.value
        ELSE IF s2.returned THEN s2.value
        ELSE IF s3.returned THEN s3.value
        ELSE << >>

get_field(doc, lbl) ==
    LET label_lower == Lower(lbl)
        s1 == LabelThenSibling(doc, find_all(doc, 1, "dt"), "dd", label_lower)
        s2 == LabelThenSibling(doc, find_all(doc, 1, "th"), "td", label_lower)
        s3 == CellThenCell(doc, find_all(doc, 1, "td"), label_lower)
    IN  IF s1.returned THEN s1.value
        ELSE IF s2.returned THEN s2.value
        ELSE IF s3.returned THEN s3.value
        ELSE << >>

\* Bound on the number of elements in the body of a get_field document.
MaxElements == 4

\* n copies of a character.
Rep(c, n) == [k \in 1..n |-> c]

\* "Date", one of the labels scrape_manuscript asks for.
DateLabel == <<"D","a","t","e">>

\* The elements a page body is put together from: name and own string.  The
\* last is a cell that holds the label but is not short.
FieldElements == {
    <<"dt", <<"D","A","T","E",":">> >>,
    <<"dd", <<" ">> >>,
    <<"dd", <<" ","1","3","e"," ">> >>,
    <<"th", <<"d","a","t","e">> >>,
    <<"td", <<"D","a","t","e"," ","?">> >>,
    <<"td", << >> >>,
    <<"td", <<"1","2","5","0">> >>,
    <<"td", DateLabel \o Rep("x", LABEL_CELL_MAX - Len(DateLabel))>> }

\* What the lxml parser builds: the BeautifulSoup object, html, body, and the
\* elements as children of body.
Page(elements) ==
    << Element("[document]", 0, {}, NoAttr, << >>),
       Element("html", 1, {}, NoAttr, << >>),
       Element("body", 2, {}, NoAttr, << >>) >>
    \o [k \in 1..Len(elements) |->
            Element(elements[k][1], 3, {}, NoAttr, elements[k][2])]

InitField ==
    /\ soup \in {Page(es) : es \in SeqsUpTo(FieldElements, MaxElements)}
    /\ label = DateLabel
    /\ field_value = None
    /\ pc = "get_field"
    /\ BatchIdle
    /\ TitleIdle
    /\ SaintsIdle
    /\ ParseIdle

\* get_field(soup, "Date")
CallGetField ==
    /\ pc = "get_field"
    /\ field_value' = get_field(soup, label)
    /\ pc' = "done"
    /\ UNCHANGED <<soup, label, batchVars, titleVars, saintVars, parseVars>>

NextField == CallGetField

SpecField == InitField /\ [][NextField]_vars

\* The label occurs in the element's text, case-insensitively.
HasLabel(n) == Contains(Lower(get_text(soup, n, << >>)), Lower(label))

Named(name) == {n \in 1..Len(soup) : soup[n].name = name}

\* The label elements of each strategy that have a value element after them.
TermsWithDefinition ==
    {n \in Named("dt") : HasLabel(n) /\ find_next_sibling(soup, n, "dd") # 0}
HeadersWithCell ==
    {n \in Named("th") : HasLabel(n) /\ find_next_sibling(soup, n, "td") # 0}
ShortCellsWithCell ==
    {n \in Named("td") : /\ HasLabel(n)
                         /\ Len(get_text(soup, n, << >>)) < LABEL_CELL_MAX
                         /\ find_next_sibling(soup, n, "td") # 0}

Least(S) == CHOOSE n \in S : \A m \in S : n <= m

ValueAfter(n, name) == get_text(soup, find_next_sibling(soup, n, name), <<" ">>)

\* What each strategy yields: the value after its first match; for cell/cell
\* the first non-empty such value; the empty string without a match.
TermValue ==
    IF TermsWithDefinition = {} THEN << >>
    ELSE ValueAfter(Least(TermsWithDefinition), "dd")
HeaderValue ==
    IF HeadersWithCell = {} THEN << >>
    ELSE ValueAfter(Least(HeadersWithCell), "td")
CellValue ==
    LET filled == {n \in ShortCellsWithCell : ValueAfter(n, "td") # << >>}
    IN  IF filled = {} THEN << >> ELSE ValueAfter(Least(filled), "td")

\* C7 as stated: the result is the first non-empty value among the three
\* strategies, in order, and is empty only when all three are empty.
C7_FirstNonEmptyStrategyValue ==
    pc = "done" =>
        field_value = (IF TermValue # << >> THEN TermValue
                       ELSE IF HeaderValue # << >> THEN HeaderValue
                       ELSE CellValue)

\* C7 amended: the first strategy that has a match decides.  A matching
\* term with a definition after it ends the search with that definition's
\* text, empty or not; otherwise a matching header with a cell after it ends
\* it with that cell's text, empty or not; otherwise the result is the first
\* non-empty cell after a short matching cell, or the empty string.
C7_FirstMatchingStrategyDecides ==
    pc = "done" =>
        field_value = (IF TermsWithDefinition # {} THEN TermValue
                       ELSE IF HeadersWithCell # {} THEN HeaderValue
                       ELSE CellValue)

\* A matching term with an empty definition, next to a header/cell pair with
\* a value: the result is empty.
C7_Witness ==
    /\ pc = "done"
    /\ TermsWithDefinition # {}
    /\ TermValue = << >>
    /\ HeaderValue # << >>
    /\ field_value = << >>

(***************************************************************************)
(* parse_contents                                                          *)
(***************************************************************************)

Digits == {"0","1","2","3","4","5","6","7","8","9"}

\* The position after the longest run of characters of class that starts at
\* position p (a greedy cls* of a regular expression).
SkipClass(s, p, class) ==
    CHOOSE j \in p..(Len(s) + 1) :
        /\ j = Len(s) + 1 \/ s[j] \notin class
        /\ \A k \in p..(j - 1) : s[k] \in class

\* The position after an optional character of class at position p (cls?).
SkipOne(s, p, class) == IF p <= Len(s) /\ s[p] \in class THEN p + 1 ELSE p

At(s, p, class) == p <= Len(s) /\ s[p] \in class

\* "/consulter/oeuvre/detail_oeuvre.php", what the href pattern of find_all
\* searches for.
DetailPath == <<"/","c","o","n","s","u","l","t","e","r","/","o","e","u","v","r","e","/","d","e","t","a","i","l","_","o","e","u","v","r","e",".","p","h","p">>

\* "oeuvre="
OeuvreKey == <<"o","e","u","v","r","e","=">>

\* soup.find_all("a", href=re.compile(...)): the links that have a href in
\* which the pattern is found.
IsWorkLink(doc, n) == doc[n].href # NoAttr /\ Contains(doc[n].href, DetailPath)

work_links(doc) ==
    LET links == find_all(doc, 1, "a")
    IN  Ascending({links[k] : k \in {j \in 1..Len(links) : IsWorkLink(doc, links[j])}})

\* href[5:] for a "../../" prefix, href.lstrip(".") for a ".." prefix.
ResolveHref(href) ==
    IF StartsWith(href, <<".", ".", "/", ".", ".", "/">>)
    THEN SubSeq(href, 6, Len(href))
    ELSE IF StartsWith(href, <<".", ".">>)
    THEN SubSeq(href, SkipClass(href, 1, {"."}), Len(href))
    ELSE href

\* re.search(r"oeuvre=(\d+)", href).group(1), the empty string for no match.
OeuvreId(href) ==
    LET starts == {k \in 1..Len(href) :
                      /\ k + Len(OeuvreKey) <= Len(href)
                      /\ SubSeq(href, k, k + Len(OeuvreKey) - 1) = OeuvreKey
                      /\ href[k + Len(OeuvreKey)] \in Digits}
    IN  IF starts = {} THEN << >>
        ELSE LET first == (CHOOSE k \in starts : \A j \in starts : k <= j) + Len(OeuvreKey)
             IN  SubSeq(href, first, SkipClass(href, first, Digits) - 1)

\* "https://jonas.irht.cnrs.fr/consulter/oeuvre/detail_oeuvre.php?oeuvre=" + id
WorkUrl(oeuvre_id) ==
    <<"https://jonas.irht.cnrs.fr/consulter/oeuvre/detail_oeuvre.php?oeuvre=">> \o oeuvre_id

\* for _ in range(6)
ANCESTOR_LEVELS == 6
\* next_val[:100] for folio and date, next_val[:400] for incipit and explicit
SHORT_FIELD_MAX == 100
LONG_FIELD_MAX == 400
\* len(td_text) < 40 for folio, < 50 for incipit and explicit
FOLIO_LABEL_MAX == 40
TEXT_LABEL_MAX == 50

IsTemoin(doc, n) == doc[n].name = "div" /\ "temoin" \in doc[n].class

\* The loop that walks up from link.parent: it stops at None (0), at a
\* div of class temoin, or after ANCESTOR_LEVELS steps, and leaves the
\* element it then stands on in container.
RECURSIVE WalkUp(_, _, _)
WalkUp(doc, container, steps) ==
    IF steps = 0 THEN container
    ELSE IF container = 0 THEN 0
    ELSE IF IsTemoin(doc, container) THEN container
    ELSE WalkUp(doc, doc[container].parent, steps - 1)

FolioWord == <<"f","o","l","i","o">>
DatationWord == <<"d","a","t","a","t","i","o","n">>
DateWord == <<"d","a","t","e">>
TationWord == <<"t","a","t","i","o","n">>
IncipitWord == <<"i","n","c","i","p","i","t">>
ExplicitWord == <<"e","x","p","l","i","c","i","t">>

\* One step of the loop over container.find_all("td").
ScanCell(doc, td, work) ==
    LET td_text == Lower(get_text(doc, td, << >>))
        next_td == find_next_sibling(doc, td, "td")
        next_val == get_text(doc, next_td, <<" ">>)
    IN  IF next_td = 0 THEN work
        ELSE IF Contains(td_text, FolioWord) /\ Len(td_text) < FOLIO_LABEL_MAX
        THEN [work EXCEPT !.folio = Prefix(next_val, SHORT_FIELD_MAX)]
        ELSE IF \/ Contains(td_text, DatationWord)
                \/ (Contains(td_text, DateWord) /\ Contains(td_text, TationWord))
        THEN [work EXCEPT !.date = Prefix(next_val, SHORT_FIELD_MAX)]
        ELSE IF StartsWith(td_text, IncipitWord) /\ Len(td_text) < TEXT_LABEL_MAX
        THEN [work EXCEPT !.incipit = Prefix(next_val, LONG_FIELD_MAX)]
        ELSE IF StartsWith(td_text, ExplicitWord) /\ Len(td_text) < TEXT_LABEL_MAX
        THEN [work EXCEPT !.explicit = Prefix(next_val, LONG_FIELD_MAX)]
        ELSE work

RECURSIVE ScanCells(_, _, _)
ScanCells(doc, tds, work) ==
    IF tds = << >> THEN work
    ELSE ScanCells(doc, Tail(tds), ScanCell(doc, Head(tds), work))

\* The character classes of the folio pattern, under re.IGNORECASE.
FolioF == {"f", "F"}
RectoVerso == {"r", "v", "R", "V"}
SubLeaf == {"a", "b", "A", "B"}
Dashes == {"-", "endash", "emdash"}

\* \d+\s*[rv]?[ab]? from position p, where a digit stands: the position
\* after it.
FolioRefEnd(s, p) ==
    SkipOne(s, SkipOne(s, SkipClass(s, SkipClass(s, p, Digits), Whitespace), RectoVerso), SubLeaf)

\* f(?:f)?\.?\s* from position p, where an f stands: the position after it.
FolioMarkEnd(s, p) ==
    SkipClass(s, SkipOne(s, SkipOne(s, p + 1, FolioF), {"."}), Whitespace)

\* The folio pattern matched at position p: the position after the match, 0
\* for no match.  Every repetition of the pattern is followed by a character
\* outside its class, so the greedy match is the only one.
FolioMatchEnd(s, p) ==
    IF ~At(s, p, FolioF) THEN 0
    ELSE LET first == FolioMarkEnd(s, p)
         IN  IF ~At(s, first, Digits) THEN 0
             ELSE LET dash == SkipClass(s, FolioRefEnd(s, first), Whitespace)
                  IN  IF ~At(s, dash, Dashes) THEN 0
                      ELSE LET after == SkipClass(s, dash + 1, Whitespace)
                               second == IF At(s, after, FolioF)
                                         THEN FolioMarkEnd(s, after)
                                         ELSE after
                           IN  IF ~At(s, second, Digits) THEN 0
                               ELSE FolioRefEnd(s, second)

\* re.search(folio pattern, text, re.IGNORECASE).group(0), the empty string
\* for no match.
FolioSearch(s) ==
    LET starts == {p \in 1..Len(s) : FolioMatchEnd(s, p) # 0}
    IN  IF starts = {} THEN << >>
        ELSE LET p == CHOOSE a \in starts : \A b \in starts : a <= b
             IN  SubSeq(s, p, FolioMatchEnd(s, p) - 1)

\* The part of the loop body after the work dict is built: the container
\* and the metadata fields.
FillMetadata(doc, link, work) ==
    LET container == WalkUp(doc, doc[link].parent, ANCESTOR_LEVELS)
    IN  IF container = 0 THEN work
        ELSE LET scanned == ScanCells(doc, find_all(doc, container, "td"), work)
             IN  IF scanned.folio # << >> THEN scanned
                 ELSE [scanned EXCEPT
                          !.folio = Strip(FolioSearch(get_text(doc, container, <<" ">>)))]

\* The work dict as first built from the link.
NewWork(doc, link, oeuvre_id) ==
    LET raw == get_text(doc, link, << >>)
        title_parts_ == clean_title(raw)
    IN  [author |-> title_parts_.author,
         title |-> title_parts_.title,
         raw_title |-> raw,
         jonas_oeuvre_url |-> WorkUrl(oeuvre_id),
         folio |-> << >>,
         date |-> << >>,
         incipit |-> << >>,
         explicit |-> << >>]

\* contents = []; seen_ids = set(); work_links = soup.find_all(...)
StartParse ==
    /\ pc = "parse_contents"
    /\ contents' = << >>
    /\ seen_ids' = {}
    /\ link_idx' = 1
    /\ pc' = "links"
    /\ UNCHANGED <<soup, label, field_value, saint_keywords, found, batchVars, titleVars>>

\* One iteration that does not remember the identifier it has seen.
ProcessLinkForgetful ==
    /\ pc = "links"
    /\ link_idx <= Len(work_links(soup))
    /\ LET link == work_links(soup)[link_idx]
           href == ResolveHref(soup[link].href)
           oeuvre_id == OeuvreId(href)
       IN  IF soup[link].href = << >> \/ oeuvre_id = << >> \/ oeuvre_id \in seen_ids
           THEN UNCHANGED <<contents, seen_ids>>
           ELSE /\ seen_ids' = seen_ids
                /\ contents' = Append(contents,
                                      FillMetadata(soup, link, NewWork(soup, link, oeuvre_id)))
    /\ link_idx' = link_idx + 1
    /\ UNCHANGED <<pc, soup, label, field_value, saint_keywords, found, batchVars, titleVars>>

\* One iteration of for link in work_links.
ProcessLink ==
    /\ pc = "links"
    /\ link_idx <= Len(work_links(soup))
    /\ LET link == work_links(soup)[link_idx]
           href == ResolveHref(soup[link].href)
           oeuvre_id == OeuvreId(href)
       IN  IF soup[link].href = << >> \/ oeuvre_id = << >> \/ oeuvre_id \in seen_ids
           THEN UNCHANGED <<contents, seen_ids>>
           ELSE /\ seen_ids' = seen_ids \cup {oeuvre_id}
                /\ contents' = Append(contents,
                                      FillMetadata(soup, link, NewWork(soup, link, oeuvre_id)))
    /\ link_idx' = link_idx + 1
    /\ UNCHANGED <<pc, soup, label, field_value, saint_keywords, found, batchVars, titleVars>>

\* return contents
ReturnContents ==
    /\ pc = "links"
    /\ link_idx > Len(work_links(soup))
    /\ pc' = "done"
    /\ UNCHANGED <<contents, soup, label, field_value, saint_keywords, found,
                   parseVars, batchVars, titleVars>>

NextParse ==
    \/ StartParse
    \/ ProcessLink
    \/ ReturnContents

(***************************************************************************)
(* The pages parse_contents is run on                                      *)
(***************************************************************************)

\* "../../consulter/oeuvre/detail_oeuvre.php?oeuvre=12"
HrefTwoUp ==
    <<".",".","/",".",".","/","c","o","n","s","u","l","t","e","r","/","o","e","u","v",
      "r","e","/","d","e","t","a","i","l","_","o","e","u","v","r","e",".","p","h","p",
      "?","o","e","u","v","r","e","=","1","2">>
\* "/consulter/oeuvre/detail_oeuvre.php?oeuvre=12&v=3"
HrefAbsolute ==
    <<"/","c","o","n","s","u","l","t","e","r","/","o","e","u","v","r","e","/","d","e",
      "t","a","i","l","_","o","e","u","v","r","e",".","p","h","p","?","o","e","u","v",
      "r","e","=","1","2","&","v","=","3">>
\* "../consulter/oeuvre/detail_oeuvre.php?oeuvre=7"
HrefOneUp ==
    <<".",".","/","c","o","n","s","u","l","t","e","r","/","o","e","u","v","r","e","/",
      "d","e","t","a","i","l","_","o","e","u","v","r","e",".","p","h","p","?","o","e",
      "u","v","r","e","=","7">>
\* "/consulter/oeuvre/detail_oeuvre.php?id=7"
HrefNoId ==
    <<"/","c","o","n","s","u","l","t","e","r","/","o","e","u","v","r","e","/","d","e",
      "t","a","i","l","_","o","e","u","v","r","e",".","p","h","p","?","i","d","=","7">>
\* "/consulter/oeuvre/recherche_oeuvre.php?oeuvre=9", not a work link
HrefSearch ==
    <<"/","c","o","n","s","u","l","t","e","r","/","o","e","u","v","r","e","/","r","e",
      "c","h","e","r","c","h","e","_","o","e","u","v","r","e",".","p","h","p","?","o",
      "e","u","v","r","e","=","9">>

\* The hrefs of work links, each with the work identifier it carries (none
\* for the last).
WorkHrefs == {
    [href |-> HrefTwoUp, id |-> <<"1","2">>],
    [href |-> HrefAbsolute, id |-> <<"1","2">>],
    [href |-> HrefOneUp, id |-> <<"7">>],
    [href |-> HrefNoId, id |-> << >>] }

\* The texts of work links, each with the title it stands for: "A|T" and
\* " U ".
LinkTexts == {
    [text |-> <<"A","|","T">>, title |-> <<"T">>],
    [text |-> <<" ","U"," ">>, title |-> <<"U">>] }

\* Bound on the number of work links of a flat page.
MaxLinks == 3

\* A page whose body holds only links.
FlatPage(links) ==
    << Element("[document]", 0, {}, NoAttr, << >>),
       Element("html", 1, {}, NoAttr, << >>),
       Element("body", 2, {}, NoAttr, << >>) >>
    \o [k \in 1..Len(links) |-> Element("a", 3, {}, links[k][1].href, links[k][2].text)]

FlatPages == {FlatPage(ls) : ls \in SeqsUpTo(WorkHrefs \X LinkTexts, MaxLinks)}

\* Bound on the number of elements between the body and a work link.
MaxDepth == 8

\* Label/value cell pairs: <<label, value>>.
\*   Folios / " 12r-14v "          a folio, to be stripped
\*   Folio / 101 digits            a folio longer than SHORT_FIELD_MAX
\*   Datation / 101 letters        a date longer than SHORT_FIELD_MAX
\*   Incipit / 401 letters         an incipit longer than LONG_FIELD_MAX
\*   Explicit : / 401 letters      an explicit longer than LONG_FIELD_MAX
\*   Note / "ff. 12v-45r"          a folio range outside a folio cell
\*   Note / "f." 101 digits "-2"   a long folio range outside a folio cell
CellPairs == {
    << <<"F","o","l","i","o","s">>, <<" ","1","2","r","-","1","4","v"," ">> >>,
    << <<"F","o","l","i","o">>, Rep("9", SHORT_FIELD_MAX + 1) >>,
    << <<"D","a","t","a","t","i","o","n">>, Rep("x", SHORT_FIELD_MAX + 1) >>,
    << <<"I","n","c","i","p","i","t">>, Rep("y", LONG_FIELD_MAX + 1) >>,
    << <<"E","x","p","l","i","c","i","t"," ",":">>, Rep("z", LONG_FIELD_MAX + 1) >>,
    << <<"N","o","t","e">>, <<"f","f","."," ","1","2","v","-","4","5","r">> >>,
    << <<"N","o","t","e">>, <<"f",".">> \o Rep("1", SHORT_FIELD_MAX + 1) \o <<"-","2">> >> }

NoPair == << >>

PairCells(pair, parent) ==
    IF pair = NoPair THEN << >>
    ELSE << Element("td", parent, {}, NoAttr, pair[1]),
            Element("td", parent, {}, NoAttr, pair[2]) >>

\* A page with one work link under depth nested divs, the temoin-th of them
\* counted from the link being of class temoin (0: none is).  inner is a cell
\* pair inside the temoin div, after the link; page is a cell pair of the
\* body, outside every div; the body ends with a link that is not a work link.
NestedPage(depth, temoin, inner, page) ==
    << Element("[document]", 0, {}, NoAttr, << >>),
       Element("html", 1, {}, NoAttr, << >>),
       Element("body", 2, {}, NoAttr, << >>) >>
    \o [j \in 1..depth |->
            Element("div", 2 + j, IF depth - j + 1 = temoin THEN {"temoin"} ELSE {},
                    NoAttr, << >>)]
    \o << Element("a", 3 + depth, {}, HrefTwoUp, <<"A","|","T">>) >>
    \o (IF temoin = 0 THEN << >> ELSE PairCells(inner, 3 + depth - temoin + 1))
    \o PairCells(page, 3)
    \o << Element("a", 3, {}, HrefSearch, <<"R">>) >>

NestedPages ==
    {NestedPage(d, 0, NoPair, page) : d \in 0..MaxDepth, page \in CellPairs \cup {NoPair}}
    \cup
    {NestedPage(dt[1], dt[2], pp[1], pp[2]) :
        dt \in {x \in (1..MaxDepth) \X (1..MaxDepth) : x[2] <= x[1]},
        pp \in (CellPairs \cup {NoPair}) \X (CellPairs \cup {NoPair})}

InitParse ==
    /\ soup \in FlatPages \cup NestedPages
    /\ pc = "parse_contents"
    /\ contents = << >>
    /\ saint_keywords = << >>
    /\ found = None
    /\ label = << >>
    /\ field_value = None
    /\ link_idx = 0
    /\ seen_ids = {}
    /\ BatchIdle
    /\ TitleIdle

SpecParse == InitParse /\ [][NextParse]_vars

(***************************************************************************)
(* Claims about parse_contents                                             *)
(***************************************************************************)

\* The identifier the link's href carries, and the title its text stands
\* for, as the page was put together.
IdOfLink(n) == (CHOOSE h \in WorkHrefs : h.href = soup[n].href).id
TitleOfLink(n) == (CHOOSE t \in LinkTexts : t.text = soup[n].text).title

\* The links with a valid work identifier.
ValidLinks ==
    {n \in 1..Len(soup) : /\ soup[n].name = "a"
                          /\ \E h \in WorkHrefs : h.href = soup[n].href /\ h.id # << >>}

\* Those of them that are the earliest with their identifier.
EarliestLinks ==
    {n \in ValidLinks : \A m \in ValidLinks : m < n => IdOfLink(m) # IdOfLink(n)}

\* C5: no two entries share a work identifier, and the entries returned are
\* those of the earliest link of each identifier, in the order of these
\* links, each with that link's text and title.
C5_OneEntryPerIdentifierFirstLinkWins ==
    /\ \A p, q \in 1..Len(contents) :
          p # q => contents[p].jonas_oeuvre_url # contents[q].jonas_oeuvre_url
    /\ pc = "done" =>
          /\ Len(contents) = Cardinality(EarliestLinks)
          /\ \A k \in 1..Len(contents) :
                LET n == Ascending(EarliestLinks)[k]
                IN  /\ contents[k].jonas_oeuvre_url = WorkUrl(IdOfLink(n))
                    /\ contents[k].raw_title = Strip(soup[n].text)
                    /\ contents[k].title = TitleOfLink(n)

\* Three links, the first and the last to the same work under different
\* texts: two entries, the first with the first link's text.
C5_Witness ==
    /\ pc = "done"
    /\ Cardinality(ValidLinks) = 3
    /\ Len(contents) = 2
    /\ IdOfLink(4) = IdOfLink(6)
    /\ soup[4].text # soup[6].text
    /\ contents[1].raw_title = Strip(soup[4].text)

HasTemoinWithinBound(n) ==
    \E k \in 1..Len(AncestorsOf(soup, n)) :
        k <= ANCESTOR_LEVELS /\ IsTemoin(soup, AncestorsOf(soup, n)[k])

MaxTargets == 3

\* The ids a target list is drawn from (the configured one and the
\* commented examples of the configuration block).
IdPool == {71291, 12345}

\* The pages the catalog may answer with (their content is opaque here).
Pages == {"pageA", "pageB"}

TargetLists == SeqsUpTo(IdPool, MaxTargets)

\* BASE_URL.format(project_id)
Url(project_id) == <<"projet", project_id>>

\* The dict scrape_manuscript returns on success.
Record(project_id, page) ==
    Dict([jonas_id |-> project_id, jonas_url |-> Url(project_id), page |-> page])

\* Python truthiness of scrape_manuscript's return value: None is falsy, a
\* dict is truthy when it has at least one key.
Truthy(v) == v.kind = "dict" /\ DOMAIN v.items # {}

InitBatch ==
    /\ ids \in TargetLists
    /\ pc = "main"
    /\ i = 0
    /\ ms = None
    /\ results = << >>
    /\ inflight = 0
    /\ events = << >>
    /\ output = << >>
    /\ stderr = << >>
    /\ TitleIdle
    /\ SaintsIdle
    /\ FieldIdle
    /\ ParseIdle

\* main: results = [] and entry into the for loop.
MainStart ==
    /\ pc = "main"
    /\ results' = << >>
    /\ i' = 0
    /\ pc' = "loop"
    /\ UNCHANGED <<ids, ms, inflight, events, output, stderr>>
    /\ UNCHANGED <<titleVars, saintVars, fieldVars, parseVars>>

\* for i, ms_id in enumerate(MANUSCRIPT_IDS): scrape_manuscript(ms_id)
\* issues requests.get.
Fetch ==
    /\ pc = "loop"
    /\ i < Len(ids)
    /\ inflight' = inflight + 1
    /\ events' = Append(events, <<"get", ids[i + 1]>>)
    /\ pc' = "get"
    /\ UNCHANGED <<ids, i, ms, results, output, stderr>>
    /\ UNCHANGED <<titleVars, saintVars, fieldVars, parseVars>>

\* requests.get returned and raise_for_status passed: the page is parsed and
\* the record returned.
FetchOk ==
    /\ pc = "get"
    /\ \E page \in Pages :
        /\ ms' = Record(ids[i + 1], page)
        /\ events' = Append(events, <<"ok", ids[i + 1], page>>)
    /\ inflight' = inflight - 1
    /\ pc' = "collect"
    /\ UNCHANGED <<ids, i, results, output, stderr>>
    /\ UNCHANGED <<titleVars, saintVars, fieldVars, parseVars>>

\* except requests.exceptions.HTTPError: print to stderr, return None.
FetchHTTPError ==
    /\ pc = "get"
    /\ ms' = None
    /\ events' = Append(events, <<"fail", ids[i + 1]>>)
    /\ stderr' = Append(stderr, <<"HTTP error", ids[i + 1]>>)
    /\ inflight' = inflight - 1
    /\ pc' = "collect"
    /\ UNCHANGED <<ids, i, results, output>>
    /\ UNCHANGED <<titleVars, saintVars, fieldVars, parseVars>>

\* A network error that is retried: the same target is requested again.
FetchNetworkErrorRetry ==
    /\ pc = "get"
    /\ ms' = None
    /\ events' = Append(events, <<"fail", ids[i + 1]>>)
    /\ stderr' = Append(stderr, <<"Network error", ids[i + 1]>>)
    /\ inflight' = inflight - 1
    /\ pc' = IF Len(events) < 2 * MaxTargets + 2 THEN "loop" ELSE "collect"
    /\ UNCHANGED <<ids, i, results, output>>
    /\ UNCHANGED <<titleVars, saintVars, fieldVars, parseVars>>

\* except requests.exceptions.RequestException: print to stderr, return None.
FetchNetworkError ==
    /\ pc = "get"
    /\ ms' = None
    /\ events' = Append(events, <<"fail", ids[i + 1]>>)
    /\ stderr' = Append(stderr, <<"Network error", ids[i + 1]>>)
    /\ inflight' = inflight - 1
    /\ pc' = "collect"
    /\ UNCHANGED <<ids, i, results, output>>
    /\ UNCHANGED <<titleVars, saintVars, fieldVars, parseVars>>

\* A collect step that lets a failed target end the loop.
CollectStopOnFailure ==
    /\ pc = "collect"
    /\ results' = IF Truthy(ms) THEN Append(results, ms) ELSE results
    /\ IF ~Truthy(ms)
       THEN pc' = "loop" /\ i' = Len(ids)
       ELSE IF i < Len(ids) - 1
            THEN pc' = "sleep" /\ i' = i
            ELSE pc' = "loop" /\ i' = i + 1
    /\ UNCHANGED <<ids, ms, inflight, events, output, stderr>>
    /\ UNCHANGED <<titleVars, saintVars, fieldVars, parseVars>>

\* A collect step that also sleeps after the last target.
CollectSleepAlways ==
    /\ pc = "collect"
    /\ results' = IF Truthy(ms) THEN Append(results, ms) ELSE results
    /\ pc' = "sleep"
    /\ i' = i
    /\ UNCHANGED <<ids, ms, inflight, events, output, stderr>>
    /\ UNCHANGED <<titleVars, saintVars, fieldVars, parseVars>>

\* if ms: results.append(ms); if i < len(MANUSCRIPT_IDS) - 1: (sleep)
Collect ==
    /\ pc = "collect"
    /\ results' = IF Truthy(ms) THEN Append(results, ms) ELSE results
    /\ IF i < Len(ids) - 1
       THEN pc' = "sleep" /\ i' = i
       ELSE pc' = "loop" /\ i' = i + 1
    /\ UNCHANGED <<ids, ms, inflight, events, output, stderr>>
    /\ UNCHANGED <<titleVars, saintVars, fieldVars, parseVars>>

\* time.sleep(DELAY_SECONDS), then the next iteration.
Sleep ==
    /\ pc = "sleep"
    /\ events' = Append(events, <<"sleep", ids[i + 1]>>)
    /\ i' = i + 1
    /\ pc' = "loop"
    /\ UNCHANGED <<ids, ms, results, inflight, output, stderr>>
    /\ UNCHANGED <<titleVars, saintVars, fieldVars, parseVars>>

\* A write that does not wait for the end of the loop.
WriteOutputEarly ==
    /\ pc = "loop"
    /\ output' = Append(output, results)
    /\ events' = Append(events, <<"write", Len(results)>>)
    /\ pc' = "summary"
    /\ UNCHANGED <<ids, i, ms, results, inflight, stderr>>
    /\ UNCHANGED <<titleVars, saintVars, fieldVars, parseVars>>

\* After the loop: json.dump(results, f) into OUTPUT_PATH.
WriteOutput ==
    /\ pc = "loop"
    /\ i >= Len(ids)
    /\ output' = Append(output, results)
    /\ events' = Append(events, <<"write", Len(results)>>)
    /\ pc' = "summary"
    /\ UNCHANGED <<ids, i, ms, results, inflight, stderr>>
    /\ UNCHANGED <<titleVars, saintVars, fieldVars, parseVars>>

\* print("Done ..."); the WARNING line when len(results) < len(MANUSCRIPT_IDS).
Summary ==
    /\ pc = "summary"
    /\ stderr' = IF Len(results) < Len(ids)
                 THEN Append(stderr, <<"WARNING", Len(ids) - Len(results)>>)
                 ELSE stderr
    /\ pc' = "done"
    /\ UNCHANGED <<ids, i, ms, results, inflight, events, output>>
    /\ UNCHANGED <<titleVars, saintVars, fieldVars, parseVars>>

NextBatch ==
    \/ MainStart
    \/ Fetch
    \/ FetchOk
    \/ FetchHTTPError
    \/ FetchNetworkError
    \/ Collect
    \/ Sleep
    \/ WriteOutput
    \/ Summary

SpecBatch == InitBatch /\ [][NextBatch]_vars

(***************************************************************************)
(* Claims about the batch driver                                           *)
(***************************************************************************)

IsGet(e) == e[1] = "get"
IsResponse(e) == e[1] \in {"ok", "fail"}
IsSleep(e) == e[1] = "sleep"
IsWrite(e) == e[1] = "write"

Gets == SelectSeq(events, IsGet)
Responses == SelectSeq(events, IsResponse)
Count(s, P(_)) == Len(SelectSeq(s, P))

\* The records of the successful responses of a response sequence, in order.
RECURSIVE SuccessRecords(_)
SuccessRecords(resp) ==
    IF resp = << >> THEN << >>
    ELSE LET rest == SuccessRecords(Tail(resp))
         IN  IF Head(resp)[1] = "ok"
             THEN <<Record(Head(resp)[2], Head(resp)[3])>> \o rest
             ELSE rest

IsFail(e) == e[1] = "fail"
IsWarning(l) == l[1] = "WARNING"

\* C1: when main has finished, every target of the list got a response, the
\* sequence written holds exactly the records of the targets whose fetch
\* succeeded, in target-list order, and the failures are reported by count.
C1_OutputIsSuccessesInOrder ==
    pc = "done" =>
        /\ Len(Responses) = Len(ids)
        /\ \A k \in 1..Len(ids) : Responses[k][2] = ids[k]
        /\ output = <<SuccessRecords(Responses)>>
        /\ Len(output[1]) = Len(ids) - Count(Responses, IsFail)
        /\ Count(stderr, IsWarning) = (IF Count(Responses, IsFail) > 0 THEN 1 ELSE 0)
        /\ Count(Responses, IsFail) > 0 =>
               stderr[Len(stderr)] = <<"WARNING", Count(Responses, IsFail)>>

\* Three targets, the second fails: two records written, one failure reported.
C1_Witness ==
    /\ pc = "done"
    /\ Len(ids) = 3
    /\ Responses[1][1] = "ok" /\ Responses[2][1] = "fail" /\ Responses[3][1] = "ok"
    /\ Len(output[1]) = 2
    /\ stderr[Len(stderr)] = <<"WARNING", 1>>

IsGetOrSleep(e) == IsGet(e) \/ IsSleep(e)
Timeline == SelectSeq(events, IsGetOrSleep)

\* C2: requests and delays alternate, starting and ending with a request:
\* every delay directly follows a request and is directly followed by the
\* next one, so a finished run over n >= 1 targets slept n - 1 times.
C2_DelayBetweenRequestsOnly ==
    /\ \A k \in 1..Len(Timeline) :
          IsSleep(Timeline[k]) => k > 1 /\ IsGet(Timeline[k - 1])
    /\ \A k \in 2..Len(Timeline) :
          IsGet(Timeline[k]) => IsSleep(Timeline[k - 1])
    /\ pc \in {"summary", "done"} /\ Len(ids) >= 1 =>
          /\ Count(events, IsSleep) = Len(ids) - 1
          /\ IsGet(Timeline[Len(Timeline)])

\* Three targets with a failure among them: exactly two delays.
C2_Witness ==
    /\ pc = "done"
    /\ Len(ids) = 3
    /\ Count(Responses, IsFail) >= 1
    /\ Count(events, IsSleep) = 2

\* C3: the output is written at most once, the write is the last thing the
\* run does to the network or the file, all targets have had their response
\* by then, and as long as a target is unprocessed nothing is written.
C3_WriteOnceAfterAllTargets ==
    /\ Len(output) = Count(events, IsWrite)
    /\ Len(output) <= 1
    /\ \A w \in 1..Len(events) :
          IsWrite(events[w]) => w = Len(events) /\ Len(Responses) = Len(ids)
    /\ Len(Responses) < Len(ids) => output = << >>
    /\ pc = "done" => Len(output) = 1

\* A finished run over at least two targets has written once.
C3_Witness ==
    /\ pc = "done"
    /\ Len(ids) >= 2
    /\ Len(output) = 1

IsGetOrResponse(e) == IsGet(e) \/ IsResponse(e)
Calls == SelectSeq(events, IsGetOrResponse)

\* C4: the requests made so far are a prefix of the target list (each target
\* once, in order), every request is answered before the next one is made,
\* at most one is outstanding, and a finished run requested every target.
C4_EachTargetFetchedOnceInOrder ==
    /\ inflight \in {0, 1}
    /\ Len(Gets) <= Len(ids)
    /\ \A k \in 1..Len(Gets) : Gets[k][2] = ids[k]
    /\ \A k \in 1..Len(Calls) :
          /\ IsGet(Calls[k]) <=> k % 2 = 1
          /\ IsResponse(Calls[k]) => Calls[k][2] = Calls[k - 1][2]
    /\ inflight = 1 <=> (Len(Calls) % 2 = 1)
    /\ pc = "done" => Len(Gets) = Len(ids)

\* A finished run over three targets where a fetch failed made three requests.
C4_Witness ==
    /\ pc = "done"
    /\ Len(ids) = 3
    /\ Count(events, IsFail) >= 1
    /\ Len(Gets) = 3

=============================================================================
